---- MODULE Spec2Model ----
(***************************************************************************)
(* Model of pyowm/utils/measurables.py: the unit conversions of            *)
(* temperature, wind speed, barometric pressure and visibility.            *)
(*                                                                         *)
(* Numbers.  A Python float is modelled as the IEEE-754 binary64 number    *)
(* it is, [t |-> "num", s |-> sign, m |-> significand, e |-> exponent],    *)
(* standing for s * m * 2^e, with +, -, *, /, the comparisons, round() and *)
(* the reading and formatting of decimals computed as Python computes      *)
(* them, rounding included.  An int is the float of the same value, and    *)
(* -0.0 is 0, so that two numbers are equal in Python (2 == 2.0) exactly   *)
(* when their records are equal.  Python's None is the record None.        *)
(* Overflow, underflow, infinities and NaN are outside the model: no value *)
(* of the model comes near the ends of the exponent range.                 *)
(*                                                                         *)
(* Mappings.  A dict is the sequence of its <<key, value>> items in        *)
(* insertion order, with distinct keys.  Dict objects live in a heap and   *)
(* are named by references, so that "the same mapping" (identity) and "an  *)
(* equal mapping" are different things.                                    *)
(*                                                                         *)
(* Calls.  A call is an activation record (frame) of a caller: the entry   *)
(* of the function, one step per iteration of its loop, and its return or  *)
(* its raise are separate steps, so that calls of several callers          *)
(* interleave.  Python 3 semantics are modelled: ordering or multiplying   *)
(* None raises TypeError.                                                  *)
(***************************************************************************)
EXTENDS Integers, Sequences, FiniteSets, TLC

VARIABLES heap, fr, callers

vars == <<heap, fr, callers>>

(***************************************************************************)
(* Bounds of the model.                                                    *)
(***************************************************************************)
\* how many times a caller feeds a result back into the same function
MaxReapply == 1

(***************************************************************************)
(* Natural numbers of any size, for the significands of floats and their  *)
(* exact sums, products and quotients: a number is the sequence of its     *)
(* digits in base 2^LimbBits, the least significant first and the last one *)
(* not 0; <<>> is 0.                                                       *)
(***************************************************************************)
LimbBits == 15

Base == 2 ^ LimbBits

Abs(n) == IF n < 0 THEN -n ELSE n

Max(a, b) == IF a > b THEN a ELSE b

Min(a, b) == IF a < b THEN a ELSE b

RECURSIVE Trim(_)
Trim(a) ==
    IF a # <<>> /\ a[Len(a)] = 0 THEN Trim(SubSeq(a, 1, Len(a) - 1)) ELSE a

Limb(a, i) == IF i <= Len(a) THEN a[i] ELSE 0

\* the natural number n, 0 <= n < 2^31
RECURSIVE NatOf(_)
NatOf(n) == IF n = 0 THEN <<>> ELSE <<n % Base>> \o NatOf(n \div Base)

RECURSIVE AddFrom(_, _, _, _)
AddFrom(a, b, i, carry) ==
    IF i > Len(a) /\ i > Len(b) THEN NatOf(carry)
    ELSE <<(Limb(a, i) + Limb(b, i) + carry) % Base>>
         \o AddFrom(a, b, i + 1, (Limb(a, i) + Limb(b, i) + carry) \div Base)

NatAdd(a, b) == Trim(AddFrom(a, b, 1, 0))

RECURSIVE SubFrom(_, _, _, _)
SubFrom(a, b, i, borrow) ==
    IF i > Len(a) THEN <<>>
    ELSE <<(a[i] - Limb(b, i) - borrow) % Base>>
         \o SubFrom(a, b, i + 1, IF a[i] - Limb(b, i) - borrow < 0 THEN 1 ELSE 0)

\* a - b, for a >= b
NatSub(a, b) == Trim(SubFrom(a, b, 1, 0))

RECURSIVE CmpFrom(_, _, _)
CmpFrom(a, b, i) ==
    IF i = 0 THEN 0
    ELSE IF a[i] < b[i] THEN -1
    ELSE IF a[i] > b[i] THEN 1
    ELSE CmpFrom(a, b, i - 1)

\* -1, 0 or 1 as a < b, a = b or a > b
NatCmp(a, b) ==
    IF Len(a) < Len(b) THEN -1
    ELSE IF Len(a) > Len(b) THEN 1
    ELSE CmpFrom(a, b, Len(a))

RECURSIVE MulSmallFrom(_, _, _, _)
MulSmallFrom(a, k, i, carry) ==
    IF i > Len(a) THEN NatOf(carry)
    ELSE <<(a[i] * k + carry) % Base>>
         \o MulSmallFrom(a, k, i + 1, (a[i] * k + carry) \div Base)

\* a * k, for 0 <= k < Base
NatMulSmall(a, k) == Trim(MulSmallFrom(a, k, 1, 0))

RECURSIVE MulFrom(_, _, _)
MulFrom(a, b, i) ==
    IF i > Len(b) THEN <<>>
    ELSE AddFrom(MulSmallFrom(a, b[i], 1, 0), <<0>> \o MulFrom(a, b, i + 1),
                 1, 0)

NatMul(a, b) == Trim(MulFrom(a, b, 1))

RECURSIVE DivSmallFrom(_, _, _, _, _)
DivSmallFrom(a, k, i, r, q) ==
    IF i = 0 THEN [q |-> Trim(q), r |-> r]
    ELSE DivSmallFrom(a, k, i - 1, (r * Base + a[i]) % k,
                      <<(r * Base + a[i]) \div k>> \o q)

\* quotient and remainder of a by k, for 0 < k <= Base
NatDivSmall(a, k) == DivSmallFrom(a, k, Len(a), 0, <<>>)

RECURSIVE BitLenSmall(_)
BitLenSmall(n) == IF n = 0 THEN 0 ELSE 1 + BitLenSmall(n \div 2)

\* the number of binary digits of a
BitLen(a) ==
    IF a = <<>> THEN 0 ELSE LimbBits * (Len(a) - 1) + BitLenSmall(a[Len(a)])

\* the binary digit of a of weight 2^n
Bit(a, n) == (Limb(a, n \div LimbBits + 1) \div 2 ^ (n % LimbBits)) % 2

\* a mod 2^n = 0
LowBitsZero(a, n) ==
    /\ \A i \in 1..(n \div LimbBits) : Limb(a, i) = 0
    /\ Limb(a, n \div LimbBits + 1) % 2 ^ (n % LimbBits) = 0

\* a * 2^n
Shl(a, n) ==
    IF a = <<>> THEN <<>>
    ELSE [i \in 1..(n \div LimbBits) |-> 0] \o NatMulSmall(a, 2 ^ (n % LimbBits))

\* floor(a / 2^n)
Shr(a, n) ==
    IF n \div LimbBits >= Len(a) THEN <<>>
    ELSE NatDivSmall(SubSeq(a, n \div LimbBits + 1, Len(a)),
                     2 ^ (n % LimbBits)).q

RECURSIVE TrailingZeros(_, _)
TrailingZeros(a, n) == IF Bit(a, n) = 1 THEN n ELSE TrailingZeros(a, n + 1)

\* the largest d in lo..hi with b * d <= r, where b * lo <= r
RECURSIVE QuotDigit(_, _, _, _)
QuotDigit(r, b, lo, hi) ==
    IF lo >= hi THEN lo
    ELSE IF NatCmp(NatMulSmall(b, (lo + hi + 1) \div 2), r) <= 0
    THEN QuotDigit(r, b, (lo + hi + 1) \div 2, hi)
    ELSE QuotDigit(r, b, lo, (lo + hi + 1) \div 2 - 1)

\* the two leading digits of r, for r < b * Base
Lead(r, b) == Limb(r, Len(b) + 1) * Base + Limb(r, Len(b))

\* floor(r / b) for r < b * Base: it lies between the quotients of the
\* leading digits of r by the leading digit of b, taken one too large and
\* as it is
Quot(r, b) ==
    QuotDigit(r, b, Lead(r, b) \div (b[Len(b)] + 1),
              Min(Base - 1, Lead(r, b) \div b[Len(b)]))

\* long division: the digits of a from the most significant, i the next one,
\* r < b the remainder and q the quotient so far
RECURSIVE DivModFrom(_, _, _, _, _)
DivModFrom(a, b, i, r, q) ==
    IF i = 0 THEN [q |-> Trim(q), r |-> r]
    ELSE LET cur == Trim(<<a[i]>> \o r)
             d == Quot(cur, b)
         IN  DivModFrom(a, b, i - 1, NatSub(cur, NatMulSmall(b, d)),
                        <<d>> \o q)

\* quotient of a by b > 0, and whether it is exact; a and b are first
\* multiplied by the power of 2 that fills the leading digit of b
NatDivMod(a, b) ==
    LET n == LimbBits - BitLenSmall(b[Len(b)])
        d == DivModFrom(Shl(a, n), Shl(b, n), Len(Shl(a, n)), <<>>, <<>>)
    IN  [q |-> d.q, exact |-> d.r = <<>>]

RECURSIVE DivPow10(_, _, _)
DivPow10(a, e, inexact) ==
    IF e = 0 THEN [q |-> a, inexact |-> inexact]
    ELSE DivPow10(NatDivSmall(a, 10).q, e - 1,
                  inexact \/ NatDivSmall(a, 10).r # 0)

RECURSIVE MulPow10(_, _)
MulPow10(a, e) == IF e = 0 THEN a ELSE MulPow10(NatMulSmall(a, 10), e - 1)

(***************************************************************************)
(* Python floats: IEEE-754 binary64 numbers.  The number s * m * 2^e is    *)
(* the record [t |-> "num", s |-> s, m |-> m, e |-> e] with s its sign     *)
(* (-1, 0 or 1) and m an odd natural number below 2^Precision; 0 is Zero.  *)
(* Every arithmetic operation gives the float nearest to the exact result, *)
(* ties to the even significand, as the hardware does.                     *)
(***************************************************************************)
Precision == 53

None == [t |-> "none", s |-> 0, m |-> <<>>, e |-> 0]

Zero == [t |-> "num", s |-> 0, m |-> <<>>, e |-> 0]

IsNum(x) == x.t = "num"

\* the float s * a * 2^e for a natural number a below 2^Precision
Exact(s, a, e) ==
    IF a = <<>> THEN Zero
    ELSE [t |-> "num", s |-> s, m |-> Shr(a, TrailingZeros(a, 0)),
          e |-> e + TrailingZeros(a, 0)]

\* floor(a / 2^k) for k > 0, rounded up when the part cut off, followed by
\* a nonzero rest if inexact, is above one half, or is one half and the
\* quotient is odd
RoundShr(a, k, inexact) ==
    IF /\ Bit(a, k - 1) = 1
       /\ (inexact \/ ~LowBitsZero(a, k - 1) \/ Bit(a, k) = 1)
    THEN NatAdd(Shr(a, k), <<1>>)
    ELSE Shr(a, k)

\* the float nearest to s * x * 2^e, where x = a if ~inexact and
\* a < x < a + 1 if inexact (a has then more than Precision binary digits)
Nearest(s, a, e, inexact) ==
    IF BitLen(a) <= Precision THEN Exact(s, a, e)
    ELSE Exact(s, RoundShr(a, BitLen(a) - Precision, inexact),
               e + BitLen(a) - Precision)

\* the float nearest to s * n / 10^e: float("<n with e decimal places>")
FromDecimal(s, n, e) ==
    IF n = <<>> THEN Zero
    ELSE LET k == IF e = 0 THEN 0
                  ELSE Max(0, Precision + 2 + 4 * e - BitLen(n))
             d == DivPow10(Shl(n, k), e, FALSE)
         IN  Nearest(s, d.q, -k, d.inexact)

\* the literal m * 10^(-e) of the source, |m| < 2^31; an int is exact
Num(m, e) == FromDecimal(IF m < 0 THEN -1 ELSE 1, NatOf(Abs(m)), e)

\* -1, 0 or 1 as |x| < |y|, |x| = |y| or |x| > |y|, for x, y # 0
CmpAbs(x, y) ==
    IF BitLen(x.m) + x.e < BitLen(y.m) + y.e THEN -1
    ELSE IF BitLen(x.m) + x.e > BitLen(y.m) + y.e THEN 1
    ELSE NatCmp(Shl(x.m, x.e - Min(x.e, y.e)), Shl(y.m, y.e - Min(x.e, y.e)))

Cmp(x, y) ==
    IF x.s # y.s THEN (IF x.s < y.s THEN -1 ELSE 1)
    ELSE IF x.s = 0 THEN 0
    ELSE x.s * CmpAbs(x, y)

\* x < y
Lt(x, y) == Cmp(x, y) < 0

\* x <= y
Le(x, y) == Cmp(x, y) <= 0

Neg(x) == [x EXCEPT !.s = -x.s]

\* x + y
Add(x, y) ==
    IF x.s = 0 THEN y
    ELSE IF y.s = 0 THEN x
    ELSE LET e == Min(x.e, y.e)
             a == Shl(x.m, x.e - e)
             b == Shl(y.m, y.e - e)
         IN  IF x.s = y.s THEN Nearest(x.s, NatAdd(a, b), e, FALSE)
             ELSE IF NatCmp(a, b) >= 0
             THEN Nearest(x.s, NatSub(a, b), e, FALSE)
             ELSE Nearest(y.s, NatSub(b, a), e, FALSE)

\* x - y
Sub(x, y) == Add(x, Neg(y))

\* x * y
Mul(x, y) == Nearest(x.s * y.s, NatMul(x.m, y.m), x.e + y.e, FALSE)

\* x / y, for y # 0
Div(x, y) ==
    IF x.s = 0 THEN Zero
    ELSE LET k == Max(0, Precision + 2 + BitLen(y.m) - BitLen(x.m))
             d == NatDivMod(Shl(x.m, k), y.m)
         IN  Nearest(x.s * y.s, d.q, x.e - y.e - k, ~d.exact)

\* round(x, nd) and float("{0:.<nd>f}".format(x)): the exact value of x is
\* rounded to nd decimal places, ties to the even digit, and the decimal
\* obtained is read as a float
Round(x, nd) ==
    IF x.s = 0 \/ x.e >= 0 THEN x
    ELSE FromDecimal(x.s, RoundShr(MulPow10(x.m, nd), -x.e, FALSE), nd)

(***************************************************************************)
(* Program constants.                                                      *)
(***************************************************************************)
KELVIN_OFFSET == Num(27315, 2)
FAHRENHEIT_OFFSET == Num(32, 0)
FAHRENHEIT_DEGREE_SCALE == Num(18, 1)
MILES_PER_HOUR_FOR_ONE_METER_PER_SEC == Num(223694, 5)
KM_PER_HOUR_FOR_ONE_METER_PER_SEC == Num(36, 1)
KNOTS_FOR_ONE_METER_PER_SEC == Num(194384, 5)
HPA_FOR_ONE_INHG == Num(338639, 4)
MILE_FOR_ONE_METER == Num(621371, 9)
KMS_FOR_ONE_METER == Num(1, 3)
ROUNDED_TO == 2

(***************************************************************************)
(* Mappings (dicts) and the heap.                                          *)
(***************************************************************************)
Keys == {"speed", "deg"}

\* the Beaufort upper bounds and the next tenth above each, in tenths
BoundTenths == {2, 15, 33, 54, 79, 107, 138, 171, 207, 244, 284, 326}

Tenths == {-1, 0, 3000, 10000} \cup BoundTenths \cup {b + 1 : b \in BoundTenths}

\* decimals whose conversion, taken exactly, falls half way between two
\* hundredths (2.675 K is -270.475 Celsius, 15 m are 0.015 km), where the
\* result depends on the floats
Ties == {Num(2675, 3), Num(15, 0)}

\* the values an input mapping may hold
Values == {None} \cup {Num(t, 1) : t \in Tenths} \cup Ties

\* the values it may hold under 'deg'
DegValues == {None, Num(-1, 1), Num(2, 1), Num(300, 0)}

ValuesOf(k) == IF k = "deg" THEN DegValues ELSE Values

\* the values a caller writes into a mapping it was given back
WriteValues == {None, Num(-1, 1)}

KeyOf(item) == item[1]

ValueOf(item) == item[2]

KeySet(d) == {KeyOf(d[j]) : j \in 1..Len(d)}

Has(d, k) == k \in KeySet(d)

\* d[k], for a key of d
Get(d, k) == ValueOf(d[CHOOSE j \in 1..Len(d) : KeyOf(d[j]) = k])

\* d[k] = v: in place for a key of d, appended for a new key
Put(d, k, v) ==
    IF Has(d, k)
    THEN [j \in 1..Len(d) |-> IF KeyOf(d[j]) = k THEN <<k, v>> ELSE d[j]]
    ELSE Append(d, <<k, v>>)

\* d1 == d2 in Python: the same keys with equal values, in any order
SameMap(d1, d2) == {d1[j] : j \in 1..Len(d1)} = {d2[j] : j \in 1..Len(d2)}

\* every dict over Keys with values in Values, in every insertion order
DictsOver(V) ==
    LET Items == {it \in Keys \X V : ValueOf(it) \in ValuesOf(KeyOf(it))}
    IN  {<<>>}
        \cup {<<it>> : it \in Items}
        \cup {d \in {<<i1, i2>> : i1 \in Items, i2 \in Items} :
                 KeyOf(d[1]) # KeyOf(d[2])}

InputDicts == DictsOver(Values \cup DegValues)

\* the callers; in SpecConc both share the input mapping
Callers == {1, 2}

\* references to dict objects: the caller-supplied input, and the dict a
\* caller's n-th chained call creates
In == <<0, 0>>
NoRef == <<0, 1>>
Refs == {In} \cup (Callers \X (1..(MaxReapply + 1)))

(***************************************************************************)
(* The scalar conversions.  A conversion of one value ends in one of:      *)
(* a value (k = "ok"), an exception (k = "err"), or the item being left    *)
(* out of the result (k = "skip").                                         *)
(***************************************************************************)
Ok(v) == [k |-> "ok", err |-> "", val |-> v]

Err(e) == [k |-> "err", err |-> e, val |-> None]

Skip == [k |-> "skip", err |-> "", val |-> None]

\* the exceptions: ValueError with the message of lines 62-63 and 79-80,
\* ValueError with the message of lines 47-48 and 230, and TypeError
NegativeTemperature == "ValueError: negative temperature values not allowed"
InvalidUnit == "ValueError: invalid value for target unit"
TypeError == "TypeError"

\* kelvin_to_celsius with the test "kelvintemp <= 0"
kelvin_to_celsius_le(kelvintemp) ==
    IF ~IsNum(kelvintemp) THEN Err(TypeError)
    ELSE IF Le(kelvintemp, Zero) THEN Err(NegativeTemperature)
    ELSE Ok(Round(Sub(kelvintemp, KELVIN_OFFSET), 2))

\* lines 61-65; None < 0 raises TypeError
kelvin_to_celsius(kelvintemp) ==
    IF ~IsNum(kelvintemp) THEN Err(TypeError)
    ELSE IF Lt(kelvintemp, Zero) THEN Err(NegativeTemperature)
    ELSE Ok(Round(Sub(kelvintemp, KELVIN_OFFSET), 2))

\* lines 78-83
kelvin_to_fahrenheit(kelvintemp) ==
    IF ~IsNum(kelvintemp) THEN Err(TypeError)
    ELSE IF Lt(kelvintemp, Zero) THEN Err(NegativeTemperature)
    ELSE Ok(Round(Add(Mul(Sub(kelvintemp, KELVIN_OFFSET),
                          FAHRENHEIT_DEGREE_SCALE),
                      FAHRENHEIT_OFFSET), 2))

\* kelvin_dict_to_branch converting for 'kelvin' too
kelvin_dict_to_branch_convert(target_temperature_unit) ==
    IF target_temperature_unit = "kelvin" THEN "celsius"
    ELSE IF target_temperature_unit = "celsius" THEN "celsius"
    ELSE IF target_temperature_unit = "fahrenheit" THEN "fahrenheit"
    ELSE InvalidUnit

\* lines 40-48: the branch kelvin_dict_to takes for a target unit
kelvin_dict_to_branch(target_temperature_unit) ==
    IF target_temperature_unit = "kelvin" THEN "same"
    ELSE IF target_temperature_unit = "celsius" THEN "celsius"
    ELSE IF target_temperature_unit = "fahrenheit" THEN "fahrenheit"
    ELSE InvalidUnit

\* lines 43, 45: the value stored under a key of the comprehension
kelvin_item(branch, value) ==
    IF branch = "celsius" THEN kelvin_to_celsius(value)
    ELSE kelvin_to_fahrenheit(value)

\* wind_item without the test for 'deg'
wind_item_all(key, value, const) ==
    IF IsNum(value) THEN Ok(Mul(value, const)) ELSE Err(TypeError)

\* wind_item leaving out None as the pressure conversion does
wind_item_skip(key, value, const) ==
    IF value = None THEN Skip
    ELSE IF key # "deg" THEN Ok(Mul(value, const))
    ELSE Ok(value)

\* lines 99-103, 119-123, 139-143: one item of a wind conversion;
\* None * const raises TypeError
wind_item(key, value, const) ==
    IF key # "deg"
    THEN IF IsNum(value) THEN Ok(Mul(value, const)) ELSE Err(TypeError)
    ELSE Ok(value)

\* the float literals of lines 163-185
Bf0_2 == Num(2, 1)

Bf1_5 == Num(15, 1)

Bf3_3 == Num(33, 1)

Bf5_4 == Num(54, 1)

Bf7_9 == Num(79, 1)

Bf10_7 == Num(107, 1)

Bf13_8 == Num(138, 1)

Bf17_1 == Num(171, 1)

Bf20_7 == Num(207, 1)

Bf24_4 == Num(244, 1)

Bf28_4 == Num(284, 1)

Bf32_6 == Num(326, 1)

\* beaufort with "value < 0.2" as its first test
beaufort_open(value) ==
    IF Lt(value, Bf0_2) THEN 0
    ELSE IF Lt(Bf0_2, value) /\ Le(value, Bf1_5) THEN 1
    ELSE IF Lt(Bf1_5, value) /\ Le(value, Bf3_3) THEN 2
    ELSE IF Lt(Bf3_3, value) /\ Le(value, Bf5_4) THEN 3
    ELSE IF Lt(Bf5_4, value) /\ Le(value, Bf7_9) THEN 4
    ELSE IF Lt(Bf7_9, value) /\ Le(value, Bf10_7) THEN 5
    ELSE IF Lt(Bf10_7, value) /\ Le(value, Bf13_8) THEN 6
    ELSE IF Lt(Bf13_8, value) /\ Le(value, Bf17_1) THEN 7
    ELSE IF Lt(Bf17_1, value) /\ Le(value, Bf20_7) THEN 8
    ELSE IF Lt(Bf20_7, value) /\ Le(value, Bf24_4) THEN 9
    ELSE IF Lt(Bf24_4, value) /\ Le(value, Bf28_4) THEN 10
    ELSE IF Lt(Bf28_4, value) /\ Le(value, Bf32_6) THEN 11
    ELSE 12

\* lines 163-188: the chain of comparisons; None <= 0.2 raises TypeError
beaufort(value) ==
    IF Le(value, Bf0_2) THEN 0
    ELSE IF Lt(Bf0_2, value) /\ Le(value, Bf1_5) THEN 1
    ELSE IF Lt(Bf1_5, value) /\ Le(value, Bf3_3) THEN 2
    ELSE IF Lt(Bf3_3, value) /\ Le(value, Bf5_4) THEN 3
    ELSE IF Lt(Bf5_4, value) /\ Le(value, Bf7_9) THEN 4
    ELSE IF Lt(Bf7_9, value) /\ Le(value, Bf10_7) THEN 5
    ELSE IF Lt(Bf10_7, value) /\ Le(value, Bf13_8) THEN 6
    ELSE IF Lt(Bf13_8, value) /\ Le(value, Bf17_1) THEN 7
    ELSE IF Lt(Bf17_1, value) /\ Le(value, Bf20_7) THEN 8
    ELSE IF Lt(Bf20_7, value) /\ Le(value, Bf24_4) THEN 9
    ELSE IF Lt(Bf24_4, value) /\ Le(value, Bf28_4) THEN 10
    ELSE IF Lt(Bf28_4, value) /\ Le(value, Bf32_6) THEN 11
    ELSE 12

\* lines 161-191: one item of metric_wind_dict_to_beaufort
beaufort_item(key, value) ==
    IF key # "deg"
    THEN IF IsNum(value) THEN Ok(Num(beaufort(value), 0)) ELSE Err(TypeError)
    ELSE Ok(value)

\* pressure_item copying None instead of leaving it out
pressure_item_copy(value) ==
    IF value = None THEN Ok(None)
    ELSE Ok(Round(Div(value, HPA_FOR_ONE_INHG), ROUNDED_TO))

\* lines 208-211: one item of metric_pressure_dict_to_inhg
pressure_item(value) ==
    IF value = None THEN Skip
    ELSE Ok(Round(Div(value, HPA_FOR_ONE_INHG), ROUNDED_TO))

\* visibility_const falling back to miles for an unknown unit
visibility_const_default(target_visibility_unit) ==
    IF target_visibility_unit = "kms" THEN Ok(KMS_FOR_ONE_METER)
    ELSE Ok(MILE_FOR_ONE_METER)

\* lines 227-231: the factor visibility_dict_to picks for a target unit
visibility_const(target_visibility_unit) ==
    IF target_visibility_unit = "miles" THEN Ok(MILE_FOR_ONE_METER)
    ELSE IF target_visibility_unit = "kms" THEN Ok(KMS_FOR_ONE_METER)
    ELSE Err(InvalidUnit)

\* lines 233-236: one item of visibility_dict_to
visibility_item(value, const) ==
    IF value = None THEN Skip
    ELSE Ok(Round(Mul(value, const), ROUNDED_TO))

(***************************************************************************)
(* Frames: a caller's current or last call.                                *)
(*   pc    "idle", "loop" (inside the function), "returned", "raised"      *)
(*   fn, unit   the function called and its target unit ("" when none)     *)
(*   arg   the reference passed as d;  snap: d's items at the call         *)
(*   n     1 for a call on the input, n + 1 for a call on the result of    *)
(*         the caller's n-th call of the same function and unit            *)
(*   res   the function's local result dict;  i: the next item of d        *)
(*   ret   the reference returned;  err: the exception raised              *)
(*   x, y  argument and result of a scalar call                            *)
(*   wr    the <<key, value>> the caller wrote into the returned dict      *)
(***************************************************************************)
TemperatureUnits == {"kelvin", "celsius", "fahrenheit", "bogus"}

VisibilityUnits == {"miles", "kms", "bogus"}

IdleFrame ==
    [pc |-> "idle", fn |-> "", unit |-> "", arg |-> NoRef, snap |-> <<>>,
     n |-> 0, res |-> NoRef, i |-> 0, ret |-> NoRef, err |-> "",
     x |-> None, y |-> None, wr |-> <<>>]

\* the arguments caller c may pass to function f with unit u: the input
\* mapping or, for a caller on its own, the mapping its last call of f with
\* u returned, as it was returned
Args(c, f, u) ==
    {<<In, 1>>}
    \cup (IF /\ callers = {c}
             /\ fr[c].pc = "returned"
             /\ fr[c].fn = f
             /\ fr[c].unit = u
             /\ fr[c].ret # NoRef
             /\ fr[c].wr = <<>>
             /\ fr[c].n <= MaxReapply
          THEN {<<fr[c].ret, fr[c].n + 1>>}
          ELSE {})

CanCall(c) == c \in callers /\ fr[c].pc \in {"idle", "returned", "raised"}

\* a chain of calls starts: the dicts of the caller's last chain are dropped
Dropped(c, n) ==
    IF n = 1 THEN [r \in Refs |-> IF r[1] = c THEN <<>> ELSE heap[r]] ELSE heap

\* result = d: the function fills the dict it was given
AliasDict(c, a, n) == a

\* result = dict(): the reference of the dict the n-th call of a chain makes
NewDict(c, a, n) == <<c, n>>

\* the frame of a call that has entered its loop
Entered(c, f, u, a, n) ==
    [IdleFrame EXCEPT !.pc = "loop", !.fn = f, !.unit = u, !.arg = a,
                      !.snap = heap[a], !.n = n, !.res = NewDict(c, a, n),
                      !.i = 1]

\* the frame of a call that raised exception e: nothing is returned
Raised(f, e) ==
    [f EXCEPT !.pc = "raised", !.err = e, !.res = NoRef, !.ret = NoRef]

\* return dict(d): a new dict instead of d
FreshDict(c, a, n) == <<c, n>>

\* return d (line 41): the reference kelvin_dict_to gives back for 'kelvin'
SameDict(c, a, n) == a

\* the exception swallowed and what was converted so far returned
ReturnPartial(c, e) ==
    /\ fr' = [fr EXCEPT ![c].pc = "returned", ![c].ret = fr[c].res,
                        ![c].res = NoRef]
    /\ heap' = heap

\* raise inside the loop: the local result is dropped with the frame
Raise(c, e) ==
    /\ fr' = [fr EXCEPT ![c] = Raised(fr[c], e)]
    /\ heap' = IF fr[c].res[1] = c THEN [heap EXCEPT ![fr[c].res] = <<>>]
               ELSE heap

\* return result
Return(c) ==
    /\ fr' = [fr EXCEPT ![c].pc = "returned", ![c].ret = fr[c].res,
                        ![c].res = NoRef]
    /\ heap' = heap

\* result[key] = v, then the next item
Store(c, key, v) ==
    /\ heap' = [heap EXCEPT ![fr[c].res] = Put(@, key, v)]
    /\ fr' = [fr EXCEPT ![c].i = @ + 1]

\* continue, then the next item
Continue(c) ==
    /\ heap' = heap
    /\ fr' = [fr EXCEPT ![c].i = @ + 1]

\* one turn of "for key, value in d.items()" with the item's outcome o
Turn(c, key, o) ==
    IF o.k = "err" THEN Raise(c, o.err)
    ELSE IF o.k = "skip" THEN Continue(c)
    ELSE Store(c, key, o.val)

InLoop(c, f) == c \in callers /\ fr[c].pc = "loop" /\ fr[c].fn = f

\* the item the loop of caller c is at
Item(c) == heap[fr[c].arg][fr[c].i]

AtEnd(c) == fr[c].i > Len(heap[fr[c].arg])

(***************************************************************************)
(* The operations.  For each function of the module: the call (the code   *)
(* before the loop) and the step (one item of the loop, or the return).    *)
(***************************************************************************)
\* kelvin_dict_to(d, target_temperature_unit), lines 40-48
kelvin_dict_to(c, u, a, n) ==
    /\ CanCall(c)
    /\ <<a, n>> \in Args(c, "kelvin_dict_to", u)
    /\ LET b == kelvin_dict_to_branch(u)
           f == Entered(c, "kelvin_dict_to", u, a, n)
       IN  fr' = [fr EXCEPT ![c] =
                    IF b = "same"
                    THEN [f EXCEPT !.pc = "returned", !.res = NoRef,
                                   !.ret = SameDict(c, a, n)]
                    ELSE IF b = InvalidUnit THEN Raised(f, InvalidUnit)
                    ELSE f]
    /\ heap' = Dropped(c, n)
    /\ UNCHANGED callers

\* the dict comprehensions of lines 43 and 45, one key a step
kelvin_dict_to_step(c) ==
    /\ InLoop(c, "kelvin_dict_to")
    /\ IF AtEnd(c) THEN Return(c)
       ELSE LET key == KeyOf(Item(c))
            IN  Turn(c, key,
                     kelvin_item(kelvin_dict_to_branch(fr[c].unit),
                                 Get(heap[fr[c].arg], key)))
    /\ UNCHANGED callers

\* kelvin_to_celsius(x) called on its own, on a value of the input mapping
kelvin_to_celsius_call(c, x) ==
    /\ CanCall(c)
    /\ \E j \in 1..Len(heap[In]) : x = ValueOf(heap[In][j])
    /\ LET o == kelvin_to_celsius(x)
           f == [IdleFrame EXCEPT !.fn = "kelvin_to_celsius", !.x = x, !.n = 1]
       IN  fr' = [fr EXCEPT ![c] =
                    IF o.k = "err" THEN Raised(f, o.err)
                    ELSE [f EXCEPT !.pc = "returned", !.y = o.val]]
    /\ heap' = Dropped(c, 1)
    /\ UNCHANGED callers

\* kelvin_to_fahrenheit(x) called on its own, on a value of the input mapping
kelvin_to_fahrenheit_call(c, x) ==
    /\ CanCall(c)
    /\ \E j \in 1..Len(heap[In]) : x = ValueOf(heap[In][j])
    /\ LET o == kelvin_to_fahrenheit(x)
           f == [IdleFrame EXCEPT !.fn = "kelvin_to_fahrenheit", !.x = x,
                                  !.n = 1]
       IN  fr' = [fr EXCEPT ![c] =
                    IF o.k = "err" THEN Raised(f, o.err)
                    ELSE [f EXCEPT !.pc = "returned", !.y = o.val]]
    /\ heap' = Dropped(c, 1)
    /\ UNCHANGED callers

\* the call of a function whose body is "result = dict()" and a loop
EnterLoop(c, f, a, n) ==
    /\ CanCall(c)
    /\ <<a, n>> \in Args(c, f, "")
    /\ fr' = [fr EXCEPT ![c] = Entered(c, f, "", a, n)]
    /\ heap' = Dropped(c, n)

\* metric_wind_dict_to_imperial(d), lines 98-104
metric_wind_dict_to_imperial(c, a, n) ==
    /\ EnterLoop(c, "metric_wind_dict_to_imperial", a, n)
    /\ UNCHANGED callers

metric_wind_dict_to_imperial_step(c) ==
    /\ InLoop(c, "metric_wind_dict_to_imperial")
    /\ IF AtEnd(c) THEN Return(c)
       ELSE Turn(c, KeyOf(Item(c)),
                 wind_item(KeyOf(Item(c)), ValueOf(Item(c)),
                           MILES_PER_HOUR_FOR_ONE_METER_PER_SEC))
    /\ UNCHANGED callers

\* metric_wind_dict_to_km_h(d), lines 118-124
metric_wind_dict_to_km_h(c, a, n) ==
    /\ EnterLoop(c, "metric_wind_dict_to_km_h", a, n)
    /\ UNCHANGED callers

metric_wind_dict_to_km_h_step(c) ==
    /\ InLoop(c, "metric_wind_dict_to_km_h")
    /\ IF AtEnd(c) THEN Return(c)
       ELSE Turn(c, KeyOf(Item(c)),
                 wind_item(KeyOf(Item(c)), ValueOf(Item(c)),
                           KM_PER_HOUR_FOR_ONE_METER_PER_SEC))
    /\ UNCHANGED callers

\* metric_wind_dict_to_knots(d), lines 138-144
metric_wind_dict_to_knots(c, a, n) ==
    /\ EnterLoop(c, "metric_wind_dict_to_knots", a, n)
    /\ UNCHANGED callers

metric_wind_dict_to_knots_step(c) ==
    /\ InLoop(c, "metric_wind_dict_to_knots")
    /\ IF AtEnd(c) THEN Return(c)
       ELSE Turn(c, KeyOf(Item(c)),
                 wind_item(KeyOf(Item(c)), ValueOf(Item(c)),
                           KNOTS_FOR_ONE_METER_PER_SEC))
    /\ UNCHANGED callers

\* metric_wind_dict_to_beaufort(d), lines 160-192
metric_wind_dict_to_beaufort(c, a, n) ==
    /\ EnterLoop(c, "metric_wind_dict_to_beaufort", a, n)
    /\ UNCHANGED callers

metric_wind_dict_to_beaufort_step(c) ==
    /\ InLoop(c, "metric_wind_dict_to_beaufort")
    /\ IF AtEnd(c) THEN Return(c)
       ELSE Turn(c, KeyOf(Item(c)),
                 beaufort_item(KeyOf(Item(c)), ValueOf(Item(c))))
    /\ UNCHANGED callers

\* metric_pressure_dict_to_inhg(d), lines 207-212
metric_pressure_dict_to_inhg(c, a, n) ==
    /\ EnterLoop(c, "metric_pressure_dict_to_inhg", a, n)
    /\ UNCHANGED callers

metric_pressure_dict_to_inhg_step(c) ==
    /\ InLoop(c, "metric_pressure_dict_to_inhg")
    /\ IF AtEnd(c) THEN Return(c)
       ELSE Turn(c, KeyOf(Item(c)), pressure_item(ValueOf(Item(c))))
    /\ UNCHANGED callers

\* visibility_dict_to(d, target_visibility_unit), lines 225-231: the result
\* dict is made first, then the unit is checked, before any item is read
visibility_dict_to(c, u, a, n) ==
    /\ CanCall(c)
    /\ <<a, n>> \in Args(c, "visibility_dict_to", u)
    /\ LET f == Entered(c, "visibility_dict_to", u, a, n)
       IN  fr' = [fr EXCEPT ![c] =
                    IF visibility_const(u).k = "err"
                    THEN Raised(f, visibility_const(u).err)
                    ELSE f]
    /\ heap' = Dropped(c, n)
    /\ UNCHANGED callers

\* lines 233-237
visibility_dict_to_step(c) ==
    /\ InLoop(c, "visibility_dict_to")
    /\ IF AtEnd(c) THEN Return(c)
       ELSE Turn(c, KeyOf(Item(c)),
                 visibility_item(ValueOf(Item(c)),
                                 visibility_const(fr[c].unit).val))
    /\ UNCHANGED callers

\* the caller assigns r[k] = v on the dict r a call returned to it
Write(c, k, v) ==
    /\ c \in callers
    /\ fr[c].pc = "returned"
    /\ fr[c].ret # NoRef
    /\ fr[c].wr = <<>>
    /\ heap' = [heap EXCEPT ![fr[c].ret] = Put(@, k, v)]
    /\ fr' = [fr EXCEPT ![c].wr = <<k, v>>]
    /\ UNCHANGED callers

(***************************************************************************)
(* Specifications.                                                         *)
(***************************************************************************)
\* the calls caller c may make, and their steps
Call(c) ==
    \/ \E u \in TemperatureUnits, a \in Refs, n \in 1..(MaxReapply + 1) :
          kelvin_dict_to(c, u, a, n)
    \/ kelvin_dict_to_step(c)
    \/ \E x \in Values \cup WriteValues : kelvin_to_celsius_call(c, x)
    \/ \E x \in Values \cup WriteValues : kelvin_to_fahrenheit_call(c, x)
    \/ \E a \in Refs, n \in 1..(MaxReapply + 1) :
          metric_wind_dict_to_imperial(c, a, n)
    \/ metric_wind_dict_to_imperial_step(c)
    \/ \E a \in Refs, n \in 1..(MaxReapply + 1) :
          metric_wind_dict_to_km_h(c, a, n)
    \/ metric_wind_dict_to_km_h_step(c)
    \/ \E a \in Refs, n \in 1..(MaxReapply + 1) :
          metric_wind_dict_to_knots(c, a, n)
    \/ metric_wind_dict_to_knots_step(c)
    \/ \E a \in Refs, n \in 1..(MaxReapply + 1) :
          metric_wind_dict_to_beaufort(c, a, n)
    \/ metric_wind_dict_to_beaufort_step(c)
    \/ \E a \in Refs, n \in 1..(MaxReapply + 1) :
          metric_pressure_dict_to_inhg(c, a, n)
    \/ metric_pressure_dict_to_inhg_step(c)
    \/ \E u \in VisibilityUnits, a \in Refs, n \in 1..(MaxReapply + 1) :
          visibility_dict_to(c, u, a, n)
    \/ visibility_dict_to_step(c)

\* one caller: calls on the input mapping and on its own results, and writes
\* into what it was given back
Init ==
    /\ \E d \in InputDicts :
          heap = [r \in Refs |-> IF r = In THEN d ELSE <<>>]
    /\ fr = [c \in Callers |-> IdleFrame]
    /\ callers = {1}

Next ==
    \E c \in Callers :
        \/ Call(c)
        \/ \E k \in Keys, v \in WriteValues : Write(c, k, v)

Spec == Init /\ [][Next]_vars

\* several callers call the functions on the same input mapping, their
\* steps interleaved
ConcValues == {None, Num(-1, 1), Num(2, 1), Num(300, 0)}

InitConc ==
    /\ \E d \in DictsOver(ConcValues) :
          heap = [r \in Refs |-> IF r = In THEN d ELSE <<>>]
    /\ fr = [c \in Callers |-> IdleFrame]
    /\ callers = Callers

NextConc == \E c \in Callers : Call(c)

SpecConc == InitConc /\ [][NextConc]_vars

(***************************************************************************)
(* Vocabulary of the properties.                                           *)
(***************************************************************************)
WindFns ==
    {"metric_wind_dict_to_imperial", "metric_wind_dict_to_km_h",
     "metric_wind_dict_to_knots", "metric_wind_dict_to_beaufort"}

DictFns ==
    WindFns \cup {"kelvin_dict_to", "metric_pressure_dict_to_inhg",
                  "visibility_dict_to"}

\* caller c holds the mapping its call returned, and has not written into it
Returned(c) ==
    fr[c].pc = "returned" /\ fr[c].ret # NoRef /\ fr[c].wr = <<>>

\* the mapping returned to caller c
Output(c) == heap[fr[c].ret]

AllNum(d) == \A j \in 1..Len(d) : IsNum(ValueOf(d[j]))

SomeNegative(d) ==
    \E j \in 1..Len(d) : IsNum(ValueOf(d[j])) /\ Lt(ValueOf(d[j]), Zero)

NonNullKeys(d) == {k \in KeySet(d) : Get(d, k) # None}

\* a key other than 'deg' holds None
NullSpeed(d) == \E k \in KeySet(d) : k # "deg" /\ Get(d, k) = None

\* the table of section 4.2: the upper bounds of levels 0..11, in tenths
UpperTenths == <<2, 15, 33, 54, 79, 107, 138, 171, 207, 244, 284, 326>>

Upper == [L \in 1..12 |-> Num(UpperTenths[L], 1)]

\* the levels, as numbers
Level == [L \in 0..12 |-> Num(L, 0)]

\* v lies in the interval of level L: above the previous upper bound, and
\* at most the level's own
InLevel(v, L) ==
    /\ L >= 1 => Lt(Upper[L], v)
    /\ L <= 11 => Le(v, Upper[L + 1])

WindFactor(f) ==
    IF f = "metric_wind_dict_to_imperial"
    THEN MILES_PER_HOUR_FOR_ONE_METER_PER_SEC
    ELSE IF f = "metric_wind_dict_to_km_h"
    THEN KM_PER_HOUR_FOR_ONE_METER_PER_SEC
    ELSE KNOTS_FOR_ONE_METER_PER_SEC

\* lv is the wind value v converted by wind function f
Converted(f, v, lv) ==
    IF f = "metric_wind_dict_to_beaufort"
    THEN \E L \in 0..12 : lv = Level[L] /\ InLevel(v, L)
    ELSE lv = Mul(v, WindFactor(f))

(***************************************************************************)
(* C1.  metric_wind_dict_to_beaufort maps every value under a key other    *)
(* than 'deg' to the level of the table with right-closed intervals: the   *)
(* value lies in exactly one of the 13 intervals, the level stored is that *)
(* interval's, an integer in 0..12; a value equal to an upper bound gets   *)
(* the lower level.                                                        *)
(***************************************************************************)
C1_BeaufortTable ==
    \A c \in Callers :
        Returned(c) /\ fr[c].fn = "metric_wind_dict_to_beaufort" =>
            \A k \in KeySet(fr[c].snap) \ {"deg"} :
                LET v == Get(fr[c].snap, k)
                    lv == Get(Output(c), k)
                IN  \E L \in 0..12 :
                        /\ lv = Level[L]
                        /\ {M \in 0..12 : InLevel(v, M)} = {L}

\* a call returned level 0 for the value 0.2, the first upper bound
C1_Witness ==
    \E c \in Callers :
        /\ Returned(c) /\ fr[c].fn = "metric_wind_dict_to_beaufort"
        /\ Has(fr[c].snap, "speed")
        /\ Get(fr[c].snap, "speed") = Num(2, 1)
        /\ Get(Output(c), "speed") = Num(0, 0)

(***************************************************************************)
(* C2.  Each of the four wind conversions returns a mapping with the key   *)
(* set of its input; the value under 'deg', if present, is the input's,    *)
(* whatever it is; every other key's value is the converted one.           *)
(***************************************************************************)
C2_WindKeysAndDeg ==
    \A c \in Callers :
        Returned(c) /\ fr[c].fn \in WindFns =>
            /\ KeySet(Output(c)) = KeySet(fr[c].snap)
            /\ \A k \in KeySet(fr[c].snap) :
                  IF k = "deg"
                  THEN Get(Output(c), k) = Get(fr[c].snap, k)
                  ELSE Converted(fr[c].fn, Get(fr[c].snap, k), Get(Output(c), k))

\* a conversion to miles/hour returned 'deg' = -0.1 as it was, beside a
\* converted speed
C2_Witness ==
    \E c \in Callers :
        /\ Returned(c) /\ fr[c].fn = "metric_wind_dict_to_imperial"
        /\ KeySet(fr[c].snap) = {"speed", "deg"}
        /\ Get(fr[c].snap, "deg") = Num(-1, 1)
        /\ Get(Output(c), "deg") = Num(-1, 1)
        /\ Get(fr[c].snap, "speed") = Num(15, 1)
        /\ Get(Output(c), "speed") = Num(335541, 5)

(***************************************************************************)
(* C3.  metric_pressure_dict_to_inhg, and visibility_dict_to with a valid  *)
(* unit, never raise on null values, and the key set of the result is      *)
(* exactly the set of input keys whose value is not null.                  *)
(***************************************************************************)
C3_NullKeysOmitted ==
    \A c \in Callers :
        (\/ fr[c].fn = "metric_pressure_dict_to_inhg"
         \/ fr[c].fn = "visibility_dict_to" /\ fr[c].unit \in {"miles", "kms"})
        => /\ fr[c].pc # "raised"
           /\ Returned(c) => KeySet(Output(c)) = NonNullKeys(fr[c].snap)

\* 'speed' was null and 'deg' was not: the result holds 'deg' alone
C3_Witness ==
    \E c \in Callers :
        /\ Returned(c) /\ fr[c].fn = "metric_pressure_dict_to_inhg"
        /\ KeySet(fr[c].snap) = {"speed", "deg"}
        /\ Get(fr[c].snap, "speed") = None
        /\ KeySet(Output(c)) = {"deg"}

(***************************************************************************)
(* C4.  kelvin_dict_to and visibility_dict_to with a target unit outside   *)
(* their sets raise the invalid-unit error for every mapping, before any   *)
(* item is read: the call is never inside its loop, nothing is stored and  *)
(* nothing is returned.  With a unit inside the set the invalid-unit error *)
(* is not raised.                                                          *)
(***************************************************************************)
C4_InvalidUnit ==
    \A c \in Callers :
        /\ (\/ fr[c].fn = "kelvin_dict_to"
                /\ fr[c].unit \notin {"kelvin", "celsius", "fahrenheit"}
            \/ fr[c].fn = "visibility_dict_to"
                /\ fr[c].unit \notin {"miles", "kms"})
           => /\ fr[c].pc = "raised"
              /\ fr[c].err = InvalidUnit
              /\ fr[c].ret = NoRef
              /\ fr[c].i = 1
              /\ heap[<<c, fr[c].n>>] = <<>>
        /\ (\/ fr[c].fn = "kelvin_dict_to"
                /\ fr[c].unit \in {"kelvin", "celsius", "fahrenheit"}
            \/ fr[c].fn = "visibility_dict_to"
                /\ fr[c].unit \in {"miles", "kms"})
           => fr[c].err # InvalidUnit

\* visibility_dict_to raised on an unknown unit for a mapping of nulls only
C4_Witness ==
    \E c \in Callers :
        /\ fr[c].fn = "visibility_dict_to" /\ fr[c].unit = "bogus"
        /\ fr[c].pc = "raised"
        /\ Len(fr[c].snap) = 2
        /\ NonNullKeys(fr[c].snap) = {}

(***************************************************************************)
(* C5.  kelvin_to_celsius(k) and kelvin_to_fahrenheit(k), for a number k,  *)
(* raise the negative-temperature error and return no value if k < 0, and  *)
(* return a number without error if k >= 0, k = 0 included.                *)
(***************************************************************************)
C5_NegativeIffRaise ==
    \A c \in Callers :
        fr[c].fn \in {"kelvin_to_celsius", "kelvin_to_fahrenheit"}
        /\ IsNum(fr[c].x) =>
            IF Lt(fr[c].x, Zero)
            THEN /\ fr[c].pc = "raised"
                 /\ fr[c].err = NegativeTemperature
                 /\ fr[c].y = None
            ELSE /\ fr[c].pc = "returned"
                 /\ fr[c].err = ""
                 /\ IsNum(fr[c].y)

\* kelvin_to_celsius(0) returned -273.15
C5_Witness ==
    \E c \in Callers :
        /\ fr[c].fn = "kelvin_to_celsius" /\ fr[c].x = Zero
        /\ fr[c].pc = "returned" /\ fr[c].y = Num(-27315, 2)

(***************************************************************************)
(* C6.  kelvin_dict_to(d, 'kelvin') returns the mapping it was passed      *)
(* (the same reference) for every d, negative and null values included,    *)
(* with every item unchanged and without raising; a later write of the     *)
(* caller into the result is read back through the argument.               *)
(***************************************************************************)
C6_KelvinReturnsArgument ==
    \A c \in Callers :
        fr[c].fn = "kelvin_dict_to" /\ fr[c].unit = "kelvin" =>
            /\ fr[c].pc = "returned"
            /\ fr[c].ret = fr[c].arg
            /\ fr[c].wr = <<>> => heap[fr[c].arg] = fr[c].snap
            /\ fr[c].wr # <<>> =>
                  /\ Has(heap[fr[c].arg], fr[c].wr[1])
                  /\ Get(heap[fr[c].arg], fr[c].wr[1]) = fr[c].wr[2]

\* the caller's write into the result changed the input mapping, which held
\* a negative and a null value
C6_Witness ==
    \E c \in Callers :
        /\ fr[c].fn = "kelvin_dict_to" /\ fr[c].unit = "kelvin"
        /\ fr[c].arg = In
        /\ fr[c].snap = << <<"speed", Num(-1, 1)>>, <<"deg", None>> >>
        /\ fr[c].wr = <<"deg", Num(-1, 1)>>
        /\ heap[In] = << <<"speed", Num(-1, 1)>>, <<"deg", Num(-1, 1)>> >>

(***************************************************************************)
(* C7.  kelvin_dict_to(d, 'celsius' or 'fahrenheit') never yields a        *)
(* partial result.  It returns only when every value of d is a number      *)
(* >= 0, and then a mapping with exactly the keys of d, each value the     *)
(* scalar conversion of d's.  When it raises it returns nothing, no dict   *)
(* of converted keys is left and d is unchanged; on a mapping of numbers   *)
(* it raises exactly when a value is negative, wherever it stands, and the *)
(* error is the negative-temperature one.  While the call runs nothing is  *)
(* returned.                                                               *)
(***************************************************************************)
C7_AllOrNothing ==
    \A c \in Callers :
        /\ fr[c].fn = "kelvin_dict_to"
        /\ fr[c].unit \in {"celsius", "fahrenheit"}
        => /\ heap[fr[c].arg] = fr[c].snap
           /\ fr[c].pc = "loop" => fr[c].ret = NoRef
           /\ fr[c].pc = "returned" =>
                 AllNum(fr[c].snap) /\ ~SomeNegative(fr[c].snap)
           /\ Returned(c) =>
                 /\ KeySet(Output(c)) = KeySet(fr[c].snap)
                 /\ \A k \in KeySet(fr[c].snap) :
                       Get(Output(c), k) =
                         (IF fr[c].unit = "celsius"
                          THEN kelvin_to_celsius(Get(fr[c].snap, k))
                          ELSE kelvin_to_fahrenheit(Get(fr[c].snap, k))).val
           /\ fr[c].pc = "raised" =>
                 /\ fr[c].ret = NoRef
                 /\ heap[<<c, fr[c].n>>] = <<>>
                 /\ AllNum(fr[c].snap) =>
                       /\ SomeNegative(fr[c].snap)
                       /\ fr[c].err = NegativeTemperature

\* the first key was converted, the second was negative: the call raised
C7_Witness ==
    \E c \in Callers :
        /\ fr[c].fn = "kelvin_dict_to" /\ fr[c].unit = "celsius"
        /\ fr[c].snap = << <<"speed", Num(300, 0)>>, <<"deg", Num(-1, 1)>> >>
        /\ fr[c].pc = "raised"
        /\ fr[c].err = NegativeTemperature

(***************************************************************************)
(* The same call run alone: the function's loop run from its first item to *)
(* its last with no other step in between.                                 *)
(***************************************************************************)
ItemOf(f, u, key, value) ==
    IF f = "kelvin_dict_to"
    THEN kelvin_item(kelvin_dict_to_branch(u), value)
    ELSE IF f = "metric_wind_dict_to_imperial"
    THEN wind_item(key, value, MILES_PER_HOUR_FOR_ONE_METER_PER_SEC)
    ELSE IF f = "metric_wind_dict_to_km_h"
    THEN wind_item(key, value, KM_PER_HOUR_FOR_ONE_METER_PER_SEC)
    ELSE IF f = "metric_wind_dict_to_knots"
    THEN wind_item(key, value, KNOTS_FOR_ONE_METER_PER_SEC)
    ELSE IF f = "metric_wind_dict_to_beaufort"
    THEN beaufort_item(key, value)
    ELSE IF f = "metric_pressure_dict_to_inhg"
    THEN pressure_item(value)
    ELSE visibility_item(value, visibility_const(u).val)

RECURSIVE LoopAlone(_, _, _, _, _)
LoopAlone(f, u, d, j, acc) ==
    IF j > Len(d) THEN [k |-> "ok", err |-> "", map |-> acc]
    ELSE LET o == ItemOf(f, u, KeyOf(d[j]), ValueOf(d[j]))
         IN  IF o.k = "err" THEN [k |-> "err", err |-> o.err, map |-> <<>>]
             ELSE LoopAlone(f, u, d, j + 1,
                            IF o.k = "skip" THEN acc
                            ELSE Put(acc, KeyOf(d[j]), o.val))

Alone(f, u, d) ==
    IF f = "kelvin_dict_to" /\ kelvin_dict_to_branch(u) = "same"
    THEN [k |-> "ok", err |-> "", map |-> d]
    ELSE IF \/ f = "kelvin_dict_to" /\ kelvin_dict_to_branch(u) = InvalidUnit
            \/ f = "visibility_dict_to" /\ visibility_const(u).k = "err"
    THEN [k |-> "err", err |-> InvalidUnit, map |-> <<>>]
    ELSE LoopAlone(f, u, d, 1, <<>>)

(***************************************************************************)
(* C8.  No step of any conversion function changes the input mapping, in   *)
(* any interleaving of the calls of the callers that share it, whether the *)
(* call returns or raises; the step at which a caller's call ends gives it *)
(* the outcome (the mapping returned, or the exception raised) of the same *)
(* call run alone on the input mapping; and no step of another caller      *)
(* changes the mapping a caller was given back.                            *)
(***************************************************************************)
C8_NoMutation ==
    [][/\ heap'[In] = heap[In]
       /\ \A c \in Callers :
             IF fr'[c] = fr[c]
             THEN fr[c].ret # NoRef => heap'[fr[c].ret] = heap[fr[c].ret]
             ELSE fr'[c].fn \in DictFns
                  /\ fr'[c].pc \in {"returned", "raised"} =>
                     LET alone == Alone(fr'[c].fn, fr'[c].unit, heap[In])
                     IN  IF fr'[c].pc = "returned"
                         THEN /\ alone.k = "ok"
                              /\ SameMap(heap'[fr'[c].ret], alone.map)
                         ELSE /\ alone.k = "err"
                              /\ fr'[c].err = alone.err
                              /\ fr'[c].ret = NoRef]_vars

\* caller 1 has its converted mapping while caller 2 is half way through
\* its own loop over the same input, which raises at the second item
C8_Witness ==
    /\ callers = {1, 2}
    /\ heap[In] = << <<"speed", Num(300, 0)>>, <<"deg", None>> >>
    /\ fr[1].fn = "metric_wind_dict_to_imperial" /\ fr[1].pc = "returned"
    /\ heap[fr[1].ret] = << <<"speed", Num(671082, 3)>>, <<"deg", None>> >>
    /\ fr[2].fn = "kelvin_dict_to" /\ fr[2].unit = "celsius"
    /\ fr[2].pc = "loop" /\ fr[2].i = 2

(***************************************************************************)
(* C9.  As claimed: applying a dict conversion to its own output, with the *)
(* same target unit, gives the values of applying it once, f(f(d)) = f(d). *)
(***************************************************************************)
C9_Idempotent ==
    \A c \in Callers :
        fr[c].fn \in DictFns /\ fr[c].n >= 2 /\ Returned(c) =>
            SameMap(Output(c), fr[c].snap)

(***************************************************************************)
(* C9, amended.  kelvin_dict_to with the target unit 'kelvin' applied to   *)
(* its own output returns without raising a mapping equal to that output   *)
(* (it is that output); this is the only conversion for which a second     *)
(* application is a no-op.                                                  *)
(***************************************************************************)
C9_KelvinIdempotent ==
    \A c \in Callers :
        fr[c].fn = "kelvin_dict_to" /\ fr[c].unit = "kelvin" /\ fr[c].n >= 2 =>
            /\ fr[c].pc = "returned"
            /\ Returned(c) => SameMap(Output(c), fr[c].snap)

\* the second application of kelvin_dict_to(., 'kelvin') to {'speed': 300}
C9_Witness ==
    \E c \in Callers :
        /\ fr[c].fn = "kelvin_dict_to" /\ fr[c].unit = "kelvin"
        /\ fr[c].n = 2 /\ Returned(c)
        /\ fr[c].snap = << <<"speed", Num(300, 0)>> >>
        /\ Output(c) = << <<"speed", Num(300, 0)>> >>

(***************************************************************************)
(* C10.  The four wind conversions do not skip null values: they raise     *)
(* TypeError exactly when a key other than 'deg' holds null, and then      *)
(* return nothing and leave no dict; they return only when no such key     *)
(* holds null, and a null under 'deg' is copied to the result.             *)
(***************************************************************************)
C10_WindNullRaises ==
    \A c \in Callers :
        fr[c].fn \in WindFns =>
            /\ fr[c].pc = "raised" =>
                  /\ fr[c].err = TypeError
                  /\ fr[c].ret = NoRef
                  /\ heap[<<c, fr[c].n>>] = <<>>
                  /\ NullSpeed(fr[c].snap)
            /\ fr[c].pc = "returned" => ~NullSpeed(fr[c].snap)
            /\ Returned(c) /\ Has(fr[c].snap, "deg")
               /\ Get(fr[c].snap, "deg") = None =>
                  /\ Has(Output(c), "deg")
                  /\ Get(Output(c), "deg") = None

\* the null under 'deg' was copied, then the null under 'speed' raised
C10_Witness ==
    \E c \in Callers :
        /\ fr[c].fn = "metric_wind_dict_to_km_h"
        /\ fr[c].snap = << <<"deg", None>>, <<"speed", None>> >>
        /\ fr[c].pc = "raised" /\ fr[c].err = TypeError

====
